---- MODULE Spec2Model ----
(***************************************************************************)
(* Model of src/src/pages/BulkMessageForm.jsx: the BulkMessageForm React   *)
(* component.  The component state (useState hooks), the asynchronous      *)
(* callback that handleBulkSend hands to parseFile, and the remote calls   *)
(* of sendMessage are modelled at the granularity of the JavaScript event  *)
(* loop: one action per event handler or per continuation after an await.  *)
(*                                                                         *)
(* Text that the code inspects character by character (cell values, the    *)
(* message template, file names, the delay input) is a sequence of         *)
(* one-character strings; text the code only passes on (response bodies,   *)
(* error messages, credentials) is a TLA+ string.                          *)
(***************************************************************************)
EXTENDS Integers, Sequences, FiniteSets, TLC

\* Largest number of rows the Row Extractor hands to the callback.
MaxRows == 2

-----------------------------------------------------------------------------
(* JavaScript values and string helpers                                    *)

\* The falsy "no value" of a cell (undefined / null).
Undefined == [type |-> "undefined"]

Str(s) == [type |-> "string", v |-> s]

Num(n) == [type |-> "number", v |-> n]

\* inputFile when no file is selected (useState(null), setInputFile(null)).
NoFile == [null |-> TRUE]

File(name) == [name |-> name]

IsSpace(c) == c = " "

WordChars ==
  {"n", "u", "m", "b", "e", "r", "H", "i", "x", "7", "2", "_", "c", "o", "s",
   "t"}

IsWordChar(c) == c \in WordChars

Digits == <<"0", "1", "2", "3", "4", "5", "6", "7", "8", "9">>

RECURSIVE NatToString(_)
\* Number.prototype.toString for a non-negative integer.
NatToString(n) ==
  IF n < 10 THEN <<Digits[n + 1]>>
  ELSE NatToString(n \div 10) \o <<Digits[(n % 10) + 1]>>

\* value.toString() of a defined cell value.
toString(c) ==
  IF c.type = "number"
    THEN (IF c.v < 0 THEN <<"-">> \o NatToString(-c.v) ELSE NatToString(c.v))
    ELSE c.v

RECURSIVE TrimStart(_)
TrimStart(s) ==
  IF s # <<>> /\ IsSpace(Head(s)) THEN TrimStart(Tail(s)) ELSE s

RECURSIVE TrimEnd(_)
TrimEnd(s) ==
  IF s # <<>> /\ IsSpace(s[Len(s)]) THEN TrimEnd(SubSeq(s, 1, Len(s) - 1)) ELSE s

\* String.prototype.trim
Trim(s) == TrimEnd(TrimStart(s))

ToLowerChar(c) ==
  CASE c = "C" -> "c"
    [] c = "S" -> "s"
    [] c = "V" -> "v"
    [] c = "X" -> "x"
    [] c = "L" -> "l"
    [] OTHER -> c

\* String.prototype.toLowerCase
ToLowerCase(s) == [k \in 1..Len(s) |-> ToLowerChar(s[k])]

RECURSIVE LastSegment(_)
\* name.split('.').pop(): the text after the last dot, or the whole name.
LastSegment(s) ==
  IF \E k \in 1..Len(s) : s[k] = "."
    THEN LastSegment(Tail(s))
    ELSE s

\* parseFile, line 18: the lower-cased extension.
Ext(file) == ToLowerCase(LastSegment(file.name))

IsDigit(c) == \E d \in 1..10 : Digits[d] = c

DigitValue(c) == (CHOOSE d \in 1..10 : Digits[d] = c) - 1

RECURSIVE ParseDigits(_, _)
\* The value of the longest prefix of decimal digits of s, after acc.
ParseDigits(s, acc) ==
  IF s # <<>> /\ IsDigit(Head(s))
    THEN ParseDigits(Tail(s), 10 * acc + DigitValue(Head(s)))
    ELSE acc

NaN == [type |-> "NaN"]

\* parseInt(text): leading blanks, an optional sign, then decimal digits;
\* NaN when no digit follows.
parseInt(text) ==
  LET s == TrimStart(text)
      neg == s # <<>> /\ Head(s) = "-"
      signed == s # <<>> /\ Head(s) \in {"-", "+"}
      body == IF signed THEN Tail(s) ELSE s
  IN IF body = <<>> \/ ~IsDigit(Head(body)) THEN NaN
     ELSE Num(IF neg THEN 0 - ParseDigits(body, 0) ELSE ParseDigits(body, 0))

RECURSIVE WordRunEnd(_, _)
\* The first position at or after p of t that holds no word character.
WordRunEnd(t, p) ==
  IF p <= Len(t) /\ IsWordChar(t[p]) THEN WordRunEnd(t, p + 1) ELSE p

\* A property every row inherits from Object.prototype (rows are plain
\* objects); "constructor" stands for all of them.
InheritedKeys == { <<"c", "o", "n", "s", "t", "r", "u", "c", "t", "o", "r">> }

\* Object, the value of row.constructor; v is what its toString() returns.
ObjectFunction ==
  [type |-> "function",
   v |-> <<"f", "u", "n", "c", "t", "i", "o", "n", " ", "O", "b", "j", "e", "c", "t", "(", ")", " ", "{", " ",
           "[", "n", "a", "t", "i", "v", "e", " ", "c", "o", "d", "e", "]", " ", "}">>]

\* data[key]: a column of the row, else an inherited property, else
\* undefined.
Field(data, key) ==
  IF key = <<"n", "u", "m", "b", "e", "r">> THEN data.number
  ELSE IF key = <<"n">> THEN data.n
  ELSE IF key \in InheritedKeys THEN ObjectFunction
  ELSE Undefined

\* Line 47, the replacer: data[key]?.toString() || ''
Replacement(data, key) ==
  LET v == Field(data, key)
  IN IF v = Undefined THEN <<>> ELSE toString(v)

RECURSIVE ReplaceFrom(_, _, _)
\* template.replace(/{(\w+)}/g, ...) from position p on.
ReplaceFrom(template, data, p) ==
  IF p > Len(template) THEN <<>>
  ELSE LET q == WordRunEnd(template, p + 1)
       IN IF template[p] = "{" /\ q > p + 1 /\ q <= Len(template) /\ template[q] = "}"
            THEN Replacement(data, SubSeq(template, p + 1, q - 1))
                   \o ReplaceFrom(template, data, q + 1)
            ELSE <<template[p]>> \o ReplaceFrom(template, data, p + 1)

\* Lines 46-48.
replacePlaceholders(template, data) == ReplaceFrom(template, data, 1)

-----------------------------------------------------------------------------
(* Inputs                                                                  *)

FileNames ==
  { <<"a", ".", "c", "s", "v">>,
    <<"b", ".", "X", "L", "S">>,
    <<"c", ".", "x", "l", "s", "x">>,
    <<"d", ".", "t", "x", "t">> }

Files == {File(n) : n \in FileNames}

\* Cell values of the "number" column: missing, empty, whitespace-only, a
\* numeric cell, and a string with surrounding blanks.
NumberCells ==
  { Undefined, Str(<<>>), Str(<<" ">>), Num(7), Str(<<" ", "2", " ">>) }

Rows == [number : NumberCells, n : {Str(<<"x">>)}]

RowSeqs == UNION {[1..k -> Rows] : k \in 0..MaxRows}

Templates == { <<>>, <<" ">>, <<"H", "i", " ", "{", "n", "}">> }

DelayInputs == { <<>>, <<"2">> }

SessionIds == {"", "sess"}

AccessTokens == {"", "tok"}

\* Longest template drawn from RenderAlphabet.
MaxTemplateLen == 5

RenderAlphabet == {"{", "}", "n", "u", "-"}

\* Templates for replacePlaceholders on its own: every text over the
\* alphabet up to the bound, and some longer ones.
RenderTemplates ==
  UNION {[1..k -> RenderAlphabet] : k \in 0..MaxTemplateLen}
    \cup { <<"{", "n", "}", "{", "n", "}">>,
           <<"{", "n", "}", "-", "{", "n", "}", "-">>,
           <<"{", "c", "o", "n", "s", "t", "r", "u", "c", "t", "o", "r", "}">> }

\* Records for replacePlaceholders on its own: column n is missing, empty,
\* a text, a number, or a text that looks like a placeholder.
RenderRecords ==
  [number : {Num(7)},
   n : {Undefined, Str(<<>>), Str(<<"x">>), Num(0), Str(<<"{", "n", "}">>)}]

\* Longest text typed into the delay input on its own.
MaxDelayLen == 3

\* Texts for the delay input on its own: signs, digits and a letter.
DelayTexts ==
  UNION {[1..k -> {"-", "0", "1", "2", "a"}] : k \in 0..MaxDelayLen}

Bodies == {"", "bad number"}

FetchErrors == {"Failed to fetch"}

TextErrors == {"body stream aborted"}

-----------------------------------------------------------------------------
VARIABLES
  sessionId,      \* prop
  accessToken,    \* prop
  inputFile,      \* useState, line 6
  bulkMessage,    \* useState, line 7
  sending,        \* useState, line 8
  delaySeconds,   \* useState, line 9
  progress,       \* useState, line 10
  pc,             \* where the callback of handleBulkSend is suspended
  runMessage,     \* bulkMessage as closed over by the running handleBulkSend
  runDelay,       \* delaySeconds as closed over by the running handleBulkSend
  validRows,      \* line 101
  i,              \* loop index, line 110
  successful,     \* line 106
  failed,         \* line 107
  response,       \* the fetch response sendMessage is reading
  rows,           \* the data the Row Extractor delivered to the callback
  calls,          \* calls of sendMessage of the run: its arguments and the
                  \* body it posts
  sleeps,         \* arguments (ms) of the sleep calls of the run
  progressLog,    \* arguments of the setProgress calls of the run
  trace,          \* suspension events of the run
  outcomes,       \* result.success of each sendMessage of the run, in order
  remote,         \* what the remote did on the last call
  lastResult,     \* what sendMessage returned last
  lastAlert,      \* the alert shown by the last click or completed run
  tpl,            \* a template handed to replacePlaceholders on its own
  rec,            \* the record handed to it
  out,            \* what it returned
  typed           \* e.target.value of the last change of the delay input

vars ==
  << sessionId, accessToken, inputFile, bulkMessage, sending, delaySeconds,
     progress, pc, runMessage, runDelay, validRows, i, successful, failed,
     response, rows, calls, sleeps, progressLog, trace, outcomes, remote,
     lastResult, lastAlert, tpl, rec, out, typed >>

\* The variables of replacePlaceholders applied on its own.
render == <<tpl, rec, out>>

props == <<sessionId, accessToken>>

closure == <<runMessage, runDelay>>

NoResponse == [ok |-> FALSE, pending |-> FALSE]

NoRemote == [fetch |-> "none", ok |-> FALSE, text |-> "none", body |-> "", error |-> ""]

NoResult == [success |-> FALSE, error |-> "", returned |-> FALSE]

Alert(kind, succ, fl) == [kind |-> kind, successful |-> succ, failed |-> fl]

NoAlert == Alert("none", 0, <<>>)

RequiredAlert == Alert("required", 0, <<>>)

UnsupportedAlert == Alert("unsupported", 0, <<>>)

\* Lines 145-149: the two forms of the completion report.
SummaryAlert(succ, fl) ==
  IF Len(fl) > 0 THEN Alert("summary_failed", succ, fl)
                 ELSE Alert("summary_all", succ, <<>>)

DefaultDelay == 3

NoOutput == [done |-> FALSE, text |-> <<>>]

\* Lines 6-10: the state of the component as mounted.
Mounted ==
  /\ inputFile = NoFile
  /\ bulkMessage = <<>>
  /\ sending = FALSE
  /\ delaySeconds = DefaultDelay
  /\ progress = [current |-> 0, total |-> 0]
  /\ pc = "idle"
  /\ runMessage = <<>>
  /\ runDelay = DefaultDelay
  /\ validRows = <<>>
  /\ i = 0
  /\ successful = 0
  /\ failed = <<>>
  /\ response = NoResponse
  /\ rows = <<>>
  /\ calls = <<>>
  /\ sleeps = <<>>
  /\ progressLog = <<>>
  /\ trace = <<>>
  /\ outcomes = <<>>
  /\ remote = NoRemote
  /\ lastResult = NoResult
  /\ lastAlert = NoAlert

Init ==
  /\ sessionId \in SessionIds
  /\ accessToken \in AccessTokens
  /\ Mounted
  /\ tpl = <<>>
  /\ rec = [number |-> Undefined, n |-> Undefined]
  /\ out = NoOutput
  /\ typed = <<>>

-----------------------------------------------------------------------------
(* Operator actions on the form                                            *)

\* Lines 12-15: the file input's onChange, with a file chosen.
handleFileChange ==
  /\ \E f \in Files : inputFile' = f
  /\ UNCHANGED << render, typed, props, bulkMessage, sending, delaySeconds, progress, pc,
                  closure, validRows, i, successful, failed, response, rows,
                  calls, sleeps, progressLog, trace, outcomes, remote,
                  lastResult, lastAlert >>

\* Line 169: the textarea's onChange.
setBulkMessage ==
  /\ \E t \in Templates : bulkMessage' = t
  /\ UNCHANGED << render, typed, props, inputFile, sending, delaySeconds, progress, pc,
                  closure, validRows, i, successful, failed, response, rows,
                  calls, sleeps, progressLog, trace, outcomes, remote,
                  lastResult, lastAlert >>

\* Line 181: parseInt(e.target.value) || 3
DelayFromInput(text) ==
  LET r == parseInt(text)
  IN IF r = NaN THEN DefaultDelay
     ELSE IF r.v = 0 THEN DefaultDelay ELSE r.v

\* Line 181: the delay input's onChange, for a text out of texts.
DelayChange(texts) ==
  /\ \E text \in texts :
       /\ typed' = text
       /\ delaySeconds' = DelayFromInput(text)
  /\ UNCHANGED << render, props, inputFile, bulkMessage, sending, progress, pc,
                  closure, validRows, i, successful, failed, response, rows,
                  calls, sleeps, progressLog, trace, outcomes, remote,
                  lastResult, lastAlert >>

setDelaySeconds == DelayChange(DelayInputs)

\* Line 133: the argument of sleep for a delay of d seconds.
SleepMs(d) == d * 1000

-----------------------------------------------------------------------------
(* handleBulkSend and the callback it hands to parseFile                   *)

\* Mutant: the button is enabled while a run is sending.
ButtonEnabled_IgnoresSending == ~(bulkMessage = <<>>)

\* Line 189: the send button is rendered enabled.
ButtonEnabled == ~(sending \/ bulkMessage = <<>>)

\* Mutant: the template is tested without trim.
InputMissing_NoTrim ==
  \/ sessionId = ""
  \/ inputFile = NoFile
  \/ accessToken = ""
  \/ bulkMessage = <<>>

\* Line 93.
InputMissing ==
  \/ sessionId = ""
  \/ inputFile = NoFile
  \/ accessToken = ""
  \/ Trim(bulkMessage) = <<>>

\* Lines 17-44, up to the point where the parser is started: which parser
\* reads the file, or the alert for an unknown extension.
parseFile(file) ==
  LET ext == Ext(file)
  IN IF ext = <<"c", "s", "v">>
       THEN pc' = "papa" /\ lastAlert' = NoAlert
     ELSE IF ext = <<"x", "l", "s", "x">> \/ ext = <<"x", "l", "s">>
       THEN pc' = "reader" /\ lastAlert' = NoAlert
     ELSE UNCHANGED pc /\ lastAlert' = UnsupportedAlert

\* The locals of the previous callback are dead and the logs start afresh
\* when a click is accepted.
NewRun ==
  /\ validRows' = <<>>
  /\ i' = 0
  /\ successful' = 0
  /\ failed' = <<>>
  /\ response' = NoResponse
  /\ rows' = <<>>
  /\ calls' = <<>>
  /\ sleeps' = <<>>
  /\ progressLog' = <<>>
  /\ trace' = <<>>
  /\ outcomes' = <<>>
  /\ remote' = NoRemote
  /\ lastResult' = NoResult

\* Lines 92-99: the click handler of the send button.
handleBulkSend ==
  /\ ButtonEnabled
  /\ IF InputMissing
       THEN /\ lastAlert' = RequiredAlert
            /\ UNCHANGED << sending, pc, closure >>
            /\ UNCHANGED << validRows, i, successful, failed, response, rows,
                            calls, sleeps, progressLog, trace, outcomes,
                            remote, lastResult >>
       ELSE /\ sending' = TRUE
            /\ runMessage' = bulkMessage
            /\ runDelay' = delaySeconds
            /\ parseFile(inputFile)
            /\ NewRun
  /\ UNCHANGED << render, typed, props, inputFile, bulkMessage, delaySeconds, progress >>

\* Mutant: the filter does not trim.
IsValidRow_NoTrim(row) ==
  /\ row.number # Undefined
  /\ toString(row.number) # <<>>

\* Line 101: the filter predicate, row.number?.toString().trim()
IsValidRow(row) ==
  /\ row.number # Undefined
  /\ Trim(toString(row.number)) # <<>>

\* Line 101.
ValidRows(data) == SelectSeq(data, IsValidRow)

\* Mutant: progress counts from zero.
ProgressAt_ZeroBased(k, total) == [current |-> k, total |-> total]

\* Line 116: the progress set before the send of the row at index k.
ProgressAt(k, total) == [current |-> k + 1, total |-> total]

\* Mutant: the delay is never awaited.
MoreRows_Never(k, vr) == FALSE

\* Mutant: a delay follows every row, the last one too.
MoreRows_Always(k, vr) == k < Len(vr)

\* Line 132: a delay follows the row at index k.
MoreRows(k, vr) == k < Len(vr) - 1

\* Mutant: a failed send ends the loop.
NextIndex_AbortOnFailure(k) ==
  IF lastResult.returned /\ ~lastResult.success THEN Len(validRows) ELSE k + 1

\* Line 110: i++
NextIndex(k) == k + 1

\* Mutant: the request carries every valid row.
Payload_AllRows(number, message) ==
  [recipients |->
     [k \in 1..Len(validRows) |->
        [number |-> Trim(toString(validRows[k].number)),
         message |-> message]]]

\* Lines 58-65: the body sendMessage posts.
Payload(number, message) ==
  [recipients |-> <<[number |-> number, message |-> message]>>]

\* Mutant: the callback reads the template of the latest render.
TemplateOfRun_Live == bulkMessage

\* Line 118: bulkMessage in the callback is the value of the render in
\* which the button was clicked.
TemplateOfRun == runMessage

\* Line 133: delaySeconds in the callback is the value of the render in
\* which the button was clicked.
DelayOfRun == runDelay

\* Mutant: the selected file survives the run.
Reset_KeepsFile ==
  /\ sending' = FALSE
  /\ UNCHANGED inputFile
  /\ bulkMessage' = <<>>
  /\ progress' = [current |-> 0, total |-> 0]

\* Lines 138-142: the reset after the loop.
Reset ==
  /\ sending' = FALSE
  /\ inputFile' = NoFile
  /\ bulkMessage' = <<>>
  /\ progress' = [current |-> 0, total |-> 0]

\* Lines 110-121 and 138-149: the loop test at index k; either the next
\* iteration up to the await of sendMessage (which runs to its await of
\* fetch), or the reset of the component and the summary.
Iterate(k, vr, succ, fl, plog, clog, tr) ==
  /\ i' = k
  /\ IF k < Len(vr)
       THEN LET row == vr[k + 1]
                number == Trim(toString(row.number))
                personalizedMessage == replacePlaceholders(TemplateOfRun, row)
            IN /\ progress' = ProgressAt(k, Len(vr))
               /\ progressLog' = Append(plog, ProgressAt(k, Len(vr)))
               /\ calls' = Append(clog,
                    [number |-> number,
                     message |-> personalizedMessage,
                     payload |-> Payload(number, personalizedMessage)])
               /\ trace' = Append(tr, "send_start")
               /\ pc' = "fetch"
               /\ UNCHANGED << sending, inputFile, bulkMessage, lastAlert >>
       ELSE /\ Reset
            /\ progressLog' = Append(plog, [current |-> 0, total |-> 0])
            /\ lastAlert' = SummaryAlert(succ, fl)
            /\ calls' = clog
            /\ trace' = tr
            /\ pc' = "idle"

\* Lines 99-108: the callback receives the parsed rows.
Callback(data) ==
  LET vr == ValidRows(data)
  IN /\ rows' = data
     /\ validRows' = vr
     /\ successful' = 0
     /\ failed' = <<>>
     /\ sleeps' = <<>>
     /\ outcomes' = <<>>
     /\ response' = NoResponse
     /\ remote' = NoRemote
     /\ lastResult' = NoResult
     /\ Iterate(0, vr, 0, <<>>, <<[current |-> 0, total |-> Len(vr)]>>,
                <<>>, <<>>)
     /\ UNCHANGED << render, typed, props, delaySeconds, closure >>

\* Lines 22-29: Papa.parse completes.
PapaComplete ==
  /\ pc = "papa"
  /\ \E data \in RowSeqs : Callback(data)

\* Lines 31-40: the FileReader's onload.
ReaderOnload ==
  /\ pc = "reader"
  /\ \E data \in RowSeqs : Callback(data)

-----------------------------------------------------------------------------
(* sendMessage and the rest of the loop body                               *)

\* Mutant: response.ok is not tested.
sendMessage_IgnoresStatus(r) ==
  IF r.fetch = "rejected" THEN [success |-> FALSE, error |-> r.error, returned |-> TRUE]
  ELSE IF r.text = "rejected" THEN [success |-> FALSE, error |-> r.error, returned |-> TRUE]
  ELSE [success |-> TRUE, error |-> "", returned |-> TRUE]

\* Lines 54-90: what sendMessage returns for what the remote did.
sendMessage(r) ==
  IF r.fetch = "rejected" THEN [success |-> FALSE, error |-> r.error, returned |-> TRUE]
  ELSE IF r.text = "rejected" THEN [success |-> FALSE, error |-> r.error, returned |-> TRUE]
  ELSE IF ~r.ok
    THEN [success |-> FALSE,
          error |-> IF r.body # "" THEN r.body ELSE "Unknown error",
          returned |-> TRUE]
  ELSE [success |-> TRUE, error |-> "", returned |-> TRUE]

\* Mutant: every result is counted as a success.
Successful_CountsAll(succ, result) == succ + 1

\* Lines 123-125: successful++ on success.
Successful(succ, result) == IF result.success THEN succ + 1 ELSE succ

\* Mutant: the failed number is not pushed.
Failed_NotPushed(fl, result, number) == fl

\* Lines 126-129: failed.push(number) otherwise.
Failed(fl, result, number) ==
  IF result.success THEN fl ELSE Append(fl, number)

\* Lines 121-136: sendMessage returned; the outcome is recorded, then
\* either the delay starts or the loop goes on (and ends).
AfterSend(r) ==
  LET result == sendMessage(r)
      number == Trim(toString(validRows[i + 1].number))
      succ == Successful(successful, result)
      fl == Failed(failed, result, number)
      tr == Append(trace, "send_end")
  IN /\ remote' = r
     /\ outcomes' = Append(outcomes, result.success)
     /\ lastResult' = result
     /\ response' = NoResponse
     /\ successful' = succ
     /\ failed' = fl
     /\ IF MoreRows(i, validRows)
          THEN /\ pc' = "sleep"
               /\ sleeps' = Append(sleeps, SleepMs(DelayOfRun))
               /\ trace' = Append(tr, "delay_start")
               /\ UNCHANGED << i, progress, progressLog, calls, sending,
                               inputFile, bulkMessage, lastAlert >>
          ELSE /\ Iterate(NextIndex(i), validRows, succ, fl, progressLog,
                          calls, tr)
               /\ UNCHANGED sleeps
     /\ UNCHANGED << render, typed, props, delaySeconds, closure, validRows, rows >>

\* Line 71: fetch resolves with a response.
FetchResolve ==
  /\ pc = "fetch"
  /\ \E ok \in BOOLEAN : response' = [ok |-> ok, pending |-> TRUE]
  /\ pc' = "text"
  /\ UNCHANGED << render, typed, props, inputFile, bulkMessage, sending, delaySeconds,
                  progress, closure, validRows, i, successful, failed, rows,
                  calls, sleeps, progressLog, trace, outcomes, remote,
                  lastResult, lastAlert >>

\* Lines 71 and 86-89: fetch rejects.
FetchReject ==
  /\ pc = "fetch"
  /\ \E e \in FetchErrors :
       AfterSend([fetch |-> "rejected", ok |-> FALSE, text |-> "none",
                  body |-> "", error |-> e])

\* Lines 79-85: response.text() resolves.
TextResolve ==
  /\ pc = "text"
  /\ \E b \in Bodies :
       AfterSend([fetch |-> "resolved", ok |-> response.ok,
                  text |-> "resolved", body |-> b, error |-> ""])

\* Lines 79 and 86-89: response.text() rejects.
TextReject ==
  /\ pc = "text"
  /\ \E e \in TextErrors :
       AfterSend([fetch |-> "resolved", ok |-> response.ok,
                  text |-> "rejected", body |-> "", error |-> e])

\* Mutant: the promise of sleep is never resolved.
SleepResolve_Never ==
  /\ pc = "sleep"
  /\ FALSE
  /\ UNCHANGED vars

\* Lines 51 and 134-136: the delay timer fires.
SleepResolve ==
  /\ pc = "sleep"
  /\ Iterate(NextIndex(i), validRows, successful, failed, progressLog, calls,
             Append(trace, "delay_end"))
  /\ UNCHANGED << render, typed, props, delaySeconds, closure, validRows, successful,
                  failed, response, rows, sleeps, outcomes, remote,
                  lastResult >>

-----------------------------------------------------------------------------
Next ==
  \/ handleFileChange
  \/ setBulkMessage
  \/ setDelaySeconds
  \/ handleBulkSend
  \/ PapaComplete
  \/ ReaderOnload
  \/ FetchResolve
  \/ FetchReject
  \/ TextResolve
  \/ TextReject
  \/ SleepResolve

Spec == Init /\ [][Next]_vars

\* replacePlaceholders (lines 46-48) on its own: any template and record.
InitRender ==
  /\ sessionId = "sess"
  /\ accessToken = "tok"
  /\ Mounted
  /\ tpl \in RenderTemplates
  /\ rec \in RenderRecords
  /\ out = NoOutput
  /\ typed = <<>>

Render ==
  /\ ~out.done
  /\ out' = [done |-> TRUE, text |-> replacePlaceholders(tpl, rec)]
  /\ UNCHANGED << props, inputFile, bulkMessage, sending, delaySeconds,
                  progress, pc, closure, validRows, i, successful, failed,
                  response, rows, calls, sleeps, progressLog, trace, outcomes,
                  remote, lastResult, lastAlert, tpl, rec, typed >>

SpecRender == InitRender /\ [][Render]_vars

\* The delay input (lines 176-183) on its own: any sequence of edits.
InitDelay ==
  /\ sessionId = "sess"
  /\ accessToken = "tok"
  /\ Mounted
  /\ tpl = <<>>
  /\ rec = [number |-> Undefined, n |-> Undefined]
  /\ out = NoOutput
  /\ typed = <<>>

setDelaySecondsAny == DelayChange(DelayTexts)

SpecDelay == InitDelay /\ [][setDelaySecondsAny]_vars

\* The promise the callback awaits settles: the fetch, the read of the
\* response body, or the delay timer.
AwaitSettles ==
  \/ FetchResolve
  \/ FetchReject
  \/ TextResolve
  \/ TextReject
  \/ SleepResolve

\* Fairness of the environment: every remote call and every read of a
\* response body settles, and every delay timer fires.
Fairness == WF_vars(AwaitSettles)

SpecLive == Init /\ [][Next]_vars /\ Fairness

-----------------------------------------------------------------------------
(* Vocabulary of the properties                                            *)

\* The callback has been entered and has not yet finished.
RunStarted == pc \in {"fetch", "text", "sleep"}

\* The callback has finished (the logs of its run are still kept).
RunEnded == pc = "idle" /\ progressLog # <<>>

\* The callback has finished: the summary is the alert on screen.
RunComplete ==
  /\ pc = "idle"
  /\ lastAlert.kind \in {"summary_all", "summary_failed"}

\* The number field of the row is present and holds a non-blank character.
HasNumber(row) ==
  /\ row.number # Undefined
  /\ \E k \in 1..Len(toString(row.number)) : toString(row.number)[k] # " "

NumValid(data) == Cardinality({k \in 1..Len(data) : HasNumber(data[k])})

RECURSIVE ExpectedNumbers(_)
\* The trimmed numbers of the rows that have one, in input order.
ExpectedNumbers(data) ==
  IF data = <<>> THEN <<>>
  ELSE IF HasNumber(Head(data))
    THEN <<Trim(toString(Head(data).number))>> \o ExpectedNumbers(Tail(data))
    ELSE ExpectedNumbers(Tail(data))

NumFailures == Cardinality({k \in 1..Len(outcomes) : ~outcomes[k]})

\* The order of the suspension events of a run.
EventCycle == <<"send_start", "send_end", "delay_start", "delay_end">>

InFlight ==
  Cardinality({k \in 1..Len(trace) : trace[k] = "send_start"})
    - Cardinality({k \in 1..Len(trace) : trace[k] = "send_end"})

-----------------------------------------------------------------------------
(* Properties                                                              *)

\* C1: when a run completes, successful + Len(failed) equals the number of
\* input rows whose number is non-empty after trimming, and every such row
\* has yielded exactly one outcome.
C1_OneOutcomePerValidRow ==
  /\ RunEnded =>
       /\ successful + Len(failed) = NumValid(rows)
       /\ Len(outcomes) = NumValid(rows)
  /\ RunComplete =>
       lastAlert.successful + Len(lastAlert.failed) = NumValid(rows)

C1_Witness ==
  /\ RunComplete
  /\ Len(rows) = 2
  /\ successful = 1
  /\ Len(failed) = 1

\* C2: the suspension events of a run alternate send, delay, send, ...: a
\* send starts only after the previous send returned and the delay after it
\* elapsed, and at most one send is in flight.
C2_SendsSequential ==
  /\ \A k \in 1..Len(trace) : trace[k] = EventCycle[((k - 1) % 4) + 1]
  /\ InFlight \in {0, 1}
  /\ (InFlight = 1) <=> (pc \in {"fetch", "text"})

C2_Witness ==
  /\ pc = "fetch"
  /\ Len(trace) = 5

\* C3: rows without a number (missing, empty, blank) are never dispatched
\* nor counted; the numbers passed to sendMessage are the trimmed numbers of
\* the other rows in input order, and the first progress has their count as
\* total.
C3_ValidRowsInOrder ==
  /\ Len(calls) <= Len(ExpectedNumbers(rows))
  /\ \A k \in 1..Len(calls) : calls[k].number = ExpectedNumbers(rows)[k]
  /\ RunEnded => Len(calls) = Len(ExpectedNumbers(rows))
  /\ progressLog # <<>> =>
       progressLog[1] = [current |-> 0, total |-> NumValid(rows)]

C3_Witness ==
  /\ RunComplete
  /\ Len(rows) = 2
  /\ ~HasNumber(rows[1])
  /\ Len(calls) = 1
  /\ calls[1].number = <<"2">>

\* C4: after the initial {0, total} and before the final reset, the
\* progress values are {1, total}, {2, total}, ... in this order, up to
\* {total, total} when the run completes.
C4_ProgressCountsUp ==
  progressLog # <<>> =>
    LET total == progressLog[1].total
        n == Len(progressLog)
        emitted == IF pc = "idle" THEN n - 2 ELSE n - 1
    IN /\ progressLog[1].current = 0
       /\ emitted <= total
       /\ \A k \in 1..emitted :
            progressLog[k + 1] = [current |-> k, total |-> total]
       /\ pc = "idle" =>
            /\ emitted = total
            /\ progressLog[n] = [current |-> 0, total |-> 0]

C4_Witness ==
  /\ RunComplete
  /\ Len(progressLog) = 4
  /\ progressLog[3] = [current |-> 2, total |-> 2]

\* C5: a completed run of total >= 1 valid rows has slept total - 1 times,
\* each time for the delay (in ms) the run was started with, and its last
\* suspension is a send, not a delay.
C5_DelaysBetweenRows ==
  /\ \A k \in 1..Len(sleeps) : sleeps[k] = runDelay * 1000
  /\ (RunEnded /\ NumValid(rows) >= 1) =>
       /\ Len(sleeps) = NumValid(rows) - 1
       /\ trace[Len(trace)] = "send_end"

C5_Witness ==
  /\ RunComplete
  /\ NumValid(rows) = 2
  /\ sleeps = <<2000>>

\* C6: a failed send does not end the run: once the callback has finished,
\* every valid row has been sent to, whatever the outcomes were, and every
\* failure is in the summary.
C6_FailureDoesNotAbort ==
  /\ RunEnded =>
       /\ Len(calls) = NumValid(rows)
       /\ Len(failed) = NumFailures
  /\ RunComplete => lastAlert.failed = failed

C6_Witness ==
  /\ RunComplete
  /\ outcomes = <<FALSE, TRUE>>

\* C7: a run whose callback has been entered completes, when every remote
\* call settles and every delay timer fires.
C7_RunCompletes == RunStarted ~> RunComplete

C7_Witness ==
  /\ RunComplete
  /\ Len(calls) = 2
  /\ Len(sleeps) = 1

\* The session id, the file or the template (empty or blank) is missing.
RequiredInputMissing ==
  \/ sessionId = ""
  \/ inputFile = NoFile
  \/ \A k \in 1..Len(bulkMessage) : bulkMessage[k] = " "

\* C8: a click with the session id, the file or the template missing starts
\* nothing: no remote call, and sending, progress, file and template are
\* unchanged.
C8_MissingInputStartsNothing ==
  [][(handleBulkSend /\ RequiredInputMissing) =>
       UNCHANGED << sending, progress, inputFile, bulkMessage, pc, calls,
                    trace >>]_vars

C8_Witness ==
  /\ lastAlert = RequiredAlert
  /\ sessionId # ""
  /\ accessToken # ""
  /\ inputFile # NoFile
  /\ bulkMessage = <<" ">>

\* The extension of the selected file is none of csv, xlsx, xls.
UnsupportedFile ==
  /\ inputFile # NoFile
  /\ Ext(inputFile) \notin {<<"c", "s", "v">>, <<"x", "l", "s", "x">>,
                            <<"x", "l", "s">>}

\* C9 (as claimed): a click with an unsupported file leaves the component
\* state as it was; in particular sending is false afterwards.
C9_UnsupportedFileStartsNothing ==
  [][(handleBulkSend /\ UnsupportedFile) =>
       /\ UNCHANGED << sending, progress, inputFile, bulkMessage, pc >>
       /\ sending' = FALSE]_vars

\* The remote call completed: fetch resolved and the body was read.
RemoteCompleted == remote.fetch = "resolved" /\ remote.text = "resolved"

\* C10 (as claimed): sendMessage returns success exactly when the remote
\* call completed with an ok status, and otherwise a failure whose reason
\* is the response body if there is one and else the transport error.
C10_ReasonIsBodyOrTransportError ==
  lastResult.returned =>
    /\ lastResult.success <=> (RemoteCompleted /\ remote.ok)
    /\ ~lastResult.success =>
         lastResult.error =
           IF RemoteCompleted /\ remote.body # "" THEN remote.body
           ELSE remote.error

\* C10 (amended): as above, but a non-ok response with an empty body gives
\* the reason "Unknown error".
C10_ReasonIsBodyOrFallback ==
  lastResult.returned =>
    /\ lastResult.success <=> (RemoteCompleted /\ remote.ok)
    /\ ~lastResult.success =>
         lastResult.error =
           IF RemoteCompleted /\ remote.body # "" THEN remote.body
           ELSE IF RemoteCompleted THEN "Unknown error"
           ELSE remote.error

C10_Witness ==
  /\ lastResult.returned
  /\ remote.fetch = "resolved"
  /\ ~remote.ok
  /\ remote.body = ""
  /\ lastResult.error = "Unknown error"

RECURSIVE ExpectedRows(_)
\* The rows that have a number, in input order.
ExpectedRows(data) ==
  IF data = <<>> THEN <<>>
  ELSE IF HasNumber(Head(data))
    THEN <<Head(data)>> \o ExpectedRows(Tail(data))
    ELSE ExpectedRows(Tail(data))

\* C11: the k-th remote call of a run posts a one-element recipients list
\* holding the trimmed number and the rendered message of the k-th valid
\* row; a call is made for a row only once the previous call has returned,
\* never twice for a row, and a finished run has made exactly total calls,
\* however many of them failed.
C11_OneCallPerValidRow ==
  /\ \A k \in 1..Len(calls) :
       /\ k <= Len(ExpectedRows(rows))
       /\ calls[k].payload.recipients =
            << [number |-> Trim(toString(ExpectedRows(rows)[k].number)),
                message |-> replacePlaceholders(runMessage,
                                                ExpectedRows(rows)[k])] >>
  /\ Len(calls) = Len(outcomes) + (IF pc \in {"fetch", "text"} THEN 1 ELSE 0)
  /\ RunEnded => Len(calls) = NumValid(rows)

C11_Witness ==
  /\ RunEnded
  /\ Len(calls) = 2
  /\ outcomes = <<FALSE, FALSE>>
  /\ calls[1].payload.recipients =
       << [number |-> <<"7">>, message |-> <<"H", "i", " ", "x">>] >>

\* C12: while the send for the k-th valid row is in flight, progress is
\* {k, total} and k - 1 outcomes have been recorded; progress counts the
\* attempt in flight.  In every state 0 <= current <= total.
C12_ProgressIsAttemptInFlight ==
  /\ pc \in {"fetch", "text"} =>
       /\ progress = [current |-> i + 1, total |-> NumValid(rows)]
       /\ Len(calls) = i + 1
       /\ successful + Len(failed) = i
       /\ Len(outcomes) = i
  /\ progress.current >= 0
  /\ progress.current <= progress.total

C12_Witness ==
  /\ pc = "text"
  /\ progress = [current |-> 2, total |-> 2]
  /\ successful + Len(failed) = 1

-----------------------------------------------------------------------------
(* The Template Renderer                                                   *)

\* A placeholder token {name}, name made of word characters, at p..q of t.
TokenAt(t, p, q) ==
  /\ p >= 1
  /\ q <= Len(t)
  /\ q > p + 1
  /\ t[p] = "{"
  /\ t[q] = "}"
  /\ \A r \in (p + 1)..(q - 1) : IsWordChar(t[r])

HasToken(t) == \E p \in 1..Len(t) : \E q \in 1..Len(t) : TokenAt(t, p, q)

\* The string form of record[name]; empty when the record has no such
\* field or the field is empty.
FieldText(record, name) ==
  IF name = <<"n", "u", "m", "b", "e", "r">> /\ record.number # Undefined
    THEN toString(record.number)
  ELSE IF name = <<"n">> /\ record.n # Undefined
    THEN toString(record.n)
  ELSE <<>>

RECURSIVE Rendered(_, _)
\* The template with every token, from left to right, replaced by the text
\* of its field, and everything else kept.
Rendered(t, record) ==
  IF ~HasToken(t) THEN t
  ELSE LET p == CHOOSE x \in 1..Len(t) :
                  /\ \E q \in 1..Len(t) : TokenAt(t, x, q)
                  /\ \A y \in 1..(x - 1) : ~\E q \in 1..Len(t) : TokenAt(t, y, q)
           q == CHOOSE x \in 1..Len(t) : TokenAt(t, p, x)
       IN SubSeq(t, 1, p - 1)
            \o FieldText(record, SubSeq(t, p + 1, q - 1))
            \o Rendered(SubSeq(t, q + 1, Len(t)), record)

\* C13 (as claimed): replacePlaceholders replaces every {fieldName} by the
\* string form of record[fieldName], by the empty string when the field is
\* absent or empty, every occurrence alike; it leaves braces without a
\* valid name and all other text as they are, and returns a template
\* without tokens unchanged.
C13_RendersFieldsOrEmpty ==
  out.done =>
    /\ out.text = Rendered(tpl, rec)
    /\ ~HasToken(tpl) => out.text = tpl

\* The names in the tokens of the template are not inherited properties.
NoInheritedName(t) ==
  \A p \in 1..Len(t) : \A q \in 1..Len(t) :
    TokenAt(t, p, q) => SubSeq(t, p + 1, q - 1) \notin InheritedKeys

\* C13, for templates that name no inherited property.
C13_RendersOwnFields ==
  (out.done /\ NoInheritedName(tpl)) =>
    /\ out.text = Rendered(tpl, rec)
    /\ ~HasToken(tpl) => out.text = tpl

-----------------------------------------------------------------------------
(* The delay of a run                                                      *)

\* C14 (as claimed): after any sequence of edits of the delay input, the
\* value a run started now would pass to sleep is greater than zero.
C14_DelayIsPositive == SleepMs(delaySeconds) > 0

-----------------------------------------------------------------------------
(* A run without valid rows                                                *)

\* The callback of handleBulkSend receives the parsed rows in this step.
CallbackRuns == pc \in {"papa", "reader"} /\ pc' # pc

\* C15: when the parsed input has no valid row, the run ends in the step
\* that delivers the rows: no send, no delay, no pass through the loop
\* body, and the summary reports 0 successes and no failed number.
C15_NoValidRowsEndsAtOnce ==
  [][ (CallbackRuns /\ NumValid(rows') = 0) =>
        /\ pc' = "idle"
        /\ calls' = <<>>
        /\ sleeps' = <<>>
        /\ trace' = <<>>
        /\ outcomes' = <<>>
        /\ progressLog' = << [current |-> 0, total |-> 0],
                             [current |-> 0, total |-> 0] >>
        /\ lastAlert' = Alert("summary_all", 0, <<>>) ]_vars

C15_Witness ==
  /\ RunComplete
  /\ Len(rows) = 2
  /\ NumValid(rows) = 0
  /\ calls = <<>>
  /\ sleeps = <<>>
  /\ lastAlert = Alert("summary_all", 0, <<>>)

-----------------------------------------------------------------------------
(* The run summary                                                         *)

RECURSIVE FailedAmong(_, _)
\* The numbers, in order, whose outcome is a failure; numbers beyond the
\* outcomes known so far are left out.
FailedAmong(numbers, results) ==
  IF numbers = <<>> \/ results = <<>> THEN <<>>
  ELSE IF Head(results)
    THEN FailedAmong(Tail(numbers), Tail(results))
    ELSE <<Head(numbers)>> \o FailedAmong(Tail(numbers), Tail(results))

NumSuccesses == Cardinality({k \in 1..Len(outcomes) : outcomes[k]})

\* C16: failed holds, in dispatch order, the trimmed numbers of the valid
\* rows whose dispatch failed and successful counts the dispatches that
\* succeeded; the report of a completed run covers every valid row, is the
\* 'all sent' form exactly when no number failed, and otherwise gives the
\* count of successes and the failed numbers.
C16_SummaryMatchesOutcomes ==
  /\ failed = FailedAmong(ExpectedNumbers(rows), outcomes)
  /\ successful = NumSuccesses
  /\ RunComplete =>
       /\ Len(outcomes) = NumValid(rows)
       /\ lastAlert.successful = NumSuccesses
       /\ lastAlert.failed = FailedAmong(ExpectedNumbers(rows), outcomes)
       /\ lastAlert.kind = "summary_all" <=> lastAlert.failed = <<>>
       /\ lastAlert.kind = "summary_failed" <=> lastAlert.failed # <<>>

C16_Witness ==
  /\ RunComplete
  /\ outcomes = <<TRUE, FALSE>>
  /\ lastAlert = Alert("summary_failed", 1, << <<"2">> >>)

-----------------------------------------------------------------------------
(* The reset at the end of a run                                           *)

\* The run ends in this step.
Completes == pc # "idle" /\ pc' = "idle"

\* C17: the step that ends a run, and no other step, resets the form:
\* progress {0, 0}, sending false, no file, empty template, the button
\* disabled; at that step every valid row has its outcome.  While rows
\* are unprocessed sending stays true and progress stays on the current
\* row.  With no file or a blank template a click starts no run.
C17_ResetOnlyAtCompletion ==
  [][ /\ Completes =>
           /\ Len(outcomes') = NumValid(rows')
           /\ progress' = [current |-> 0, total |-> 0]
           /\ sending' = FALSE
           /\ inputFile' = NoFile
           /\ bulkMessage' = <<>>
           /\ ~ButtonEnabled'
      /\ RunStarted' =>
           /\ Len(outcomes') < NumValid(rows')
           /\ sending'
           /\ progress'.total = NumValid(rows')
           /\ progress'.current >= 1
      /\ ( \/ sending /\ ~sending'
           \/ inputFile # NoFile /\ inputFile' = NoFile
           \/ progress.total # 0 /\ progress'.total = 0 ) => Completes
      /\ (pc = "idle" /\ (inputFile = NoFile \/ Trim(bulkMessage) = <<>>)) =>
           pc' = "idle" ]_vars

C17_Witness ==
  /\ RunComplete
  /\ Len(outcomes) = 2
  /\ progress = [current |-> 0, total |-> 0]
  /\ ~sending
  /\ inputFile = NoFile
  /\ bulkMessage = <<>>

-----------------------------------------------------------------------------
(* One run at a time                                                       *)

\* A click is accepted in this step and a parser is started for its run.
RunAccepted == pc' \in {"papa", "reader"} /\ pc' # pc

\* C18: whatever the operator does, a run is accepted only while no run is
\* active and sending is false; from then until the run ends sending is
\* true and the button is disabled; sending changes only when a click is
\* accepted or a run ends; only the active run writes the progress and
\* only its last step shows a summary.
C18_OneRunAtATime ==
  [][ /\ RunAccepted => (pc = "idle" /\ ~sending /\ ButtonEnabled)
      /\ pc' # "idle" => (sending' /\ ~ButtonEnabled')
      /\ sending' # sending =>
           \/ Completes
           \/ pc = "idle" /\ ~sending /\ ButtonEnabled /\ ~InputMissing
      /\ progress' # progress => pc # "idle"
      /\ ( /\ lastAlert' # lastAlert
           /\ lastAlert'.kind \in {"summary_all", "summary_failed"} )
           => Completes ]_vars

C18_Witness ==
  /\ pc = "sleep"
  /\ Len(outcomes) = 1
  /\ sending
  /\ inputFile # NoFile
  /\ Trim(bulkMessage) # <<>>
  /\ ~ButtonEnabled

-----------------------------------------------------------------------------
(* The inputs of a run are those of the click                              *)

\* C19: a run takes the template and the delay of the click that started
\* it and keeps them to its end: whatever the operator types meanwhile,
\* every message of the run is rendered from that template and every
\* delay of the run has that length.
C19_RunUsesInputsOfClick ==
  [][ /\ RunAccepted => (runMessage' = bulkMessage /\ runDelay' = delaySeconds)
      /\ pc # "idle" => UNCHANGED closure
      /\ \A k \in 1..Len(calls') :
           calls'[k].message =
             replacePlaceholders(runMessage', ExpectedRows(rows')[k])
      /\ \A k \in 1..Len(sleeps') : sleeps'[k] = SleepMs(runDelay') ]_vars

C19_Witness ==
  /\ pc = "fetch"
  /\ Len(calls) = 2
  /\ runMessage = <<"H", "i", " ", "{", "n", "}">>
  /\ bulkMessage = <<" ">>
  /\ calls[2].message = <<"H", "i", " ", "x">>
  /\ runDelay = 3
  /\ delaySeconds = 2
  /\ sleeps = <<3000>>

====
